---- MODULE Spec2Model ----
(***************************************************************************)
(* Bounded-concurrency background task scheduler of the blog post          *)
(* "Framework-agnostic background task management" (full module listing,   *)
(* src/unnamed/part_000 lines 210-276).                                    *)
(*                                                                         *)
(* The module runs on one asyncio event loop.  The loop is modelled as its *)
(* FIFO ready queue of callbacks; asyncio.Task, asyncio.Semaphore and      *)
(* asyncio.wait_for behave as in CPython 3.12 (the post is dated           *)
(* 2024-04-01 and uses 3.10+ syntax):                                      *)
(*   - create_task schedules the first step of the coroutine with          *)
(*     call_soon; a finished task schedules its done callbacks, in         *)
(*     registration order, with call_soon;                                 *)
(*   - Semaphore.acquire takes a permit only when the semaphore is not     *)
(*     locked(), else it queues a future; release hands the permit to the  *)
(*     first waiter whose future is not done;                              *)
(*   - wait_for(task, timeout) cancels the awaited task when the timeout   *)
(*     expires, and re-raises whatever the awaited task raised.            *)
(* Request handlers, work completion and timers are the environment.  No   *)
(* code of the module calls Task.cancel(): the cancellations of the model  *)
(* are those of wait_for.                                                  *)
(***************************************************************************)
EXTENDS Integers, Sequences, FiniteSets, TLC

\* ---- bounds of the model -------------------------------------------------
MaxTasks == 3
MaxTime == 2

\* ---- program constant ----------------------------------------------------
MAX_BACKGROUND_TASKS == 1

\* inputs: task names and timeouts (seconds > 0)
Names == {"a", "b"}
\* (the names are interchangeable: the awaited name is the first one, and the
\* tasks take either)
WaitNames == {"a"}
Timeouts == {1}
Tasks == 1..MaxTasks
\* one wait_for_task call is in the model
Waiters == {1}
NoName == "-"

VARIABLES
  task,              \* asyncio.Task objects made by run_background_task
  _ACTIVE_TASKS,     \* the module-level set of tracked tasks
  _TASKS_SEMAPHORE,  \* the module-level semaphore, None until first use
  ready,             \* the event loop's FIFO queue of ready callbacks
  waiter,            \* the wait_for_task calls (one coroutine each)
  now,               \* loop.time()
  log                \* what the run has shown so far (observation only)

vars == <<task, _ACTIVE_TASKS, _TASKS_SEMAPHORE, ready, waiter, now, log>>

None == [value |-> -1, waiters |-> <<>>]

\* callbacks held by the ready queue and by a task's done-callback list
\* ("first" marks the first callback that one running callback scheduled: what
\* one callback schedules sits in the queue back to back)
StepCb(t) == [kind |-> "step", id |-> t, first |-> FALSE]
DiscardCb(t) == [kind |-> "discard", id |-> t, first |-> FALSE]
ReportCb(t) == [kind |-> "report", id |-> t, first |-> FALSE]
WakeupCb(w) == [kind |-> "wakeup", id |-> w, first |-> FALSE]

\* The whole program state as one record, so that the code's sequential
\* statements compose as functions from state to state.
State ==
  [task |-> task, active |-> _ACTIVE_TASKS, sem |-> _TASKS_SEMAPHORE,
   ready |-> ready, waiter |-> waiter, now |-> now, log |-> log]

MarkFirst(seq, k) ==
  IF k > Len(seq) THEN seq
  ELSE SubSeq(seq, 1, k - 1) \o <<[seq[k] EXCEPT !.first = TRUE]>>
         \o SubSeq(seq, k + 1, Len(seq))

\* One callback (or one piece of handler code) has run from state s0 to state
\* s: the callbacks it scheduled were appended to the ready queue as one block.
Commit(s0, s) ==
  /\ task' = s.task
  /\ _ACTIVE_TASKS' = s.active
  /\ _TASKS_SEMAPHORE' = s.sem
  /\ ready' = MarkFirst(s.ready, Len(s0.ready) + 1)
  /\ waiter' = s.waiter
  /\ now' = s.now
  /\ log' = s.log

\* Handler code, I/O completions and timers are themselves callbacks of the
\* loop, queued at some earlier time: they run between two callbacks, never
\* inside the block of callbacks that a single callback scheduled.
BetweenCallbacks ==
  IF ready = <<>> THEN TRUE ELSE Head(ready).first

NoTask ==
  [name |-> NoName, pc |-> "none", must_cancel |-> FALSE, outcome |-> "pending",
   io |-> "idle", callbacks |-> <<>>]

NoWaiter ==
  [pc |-> "idle", name |-> NoName, snapshot |-> <<>>, idx |-> 0, deadline |-> 0,
   began |-> 0, called |-> 0, seconds |-> 0, expiring |-> FALSE, must_cancel |-> FALSE,
   error |-> "none"]

NoLog ==
  [started |-> <<>>, warnings |-> [t \in Tasks |-> 0], unhandled |-> {},
   discards |-> [t \in Tasks |-> 0], reports |-> [t \in Tasks |-> 0],
   semaphores |-> 0, cancelled_queued |-> {}]

Init ==
  /\ task = [t \in Tasks |-> NoTask]
  /\ _ACTIVE_TASKS = {}
  /\ _TASKS_SEMAPHORE = None
  /\ ready = <<>>
  /\ waiter = [w \in Waiters |-> NoWaiter]
  /\ now = 0
  /\ log = NoLog

\* ---- asyncio.Semaphore ----------------------------------------------------

\* (get_tasks_semaphore with a fault: a new semaphore at every call)
get_tasks_semaphore_eager(s) ==
  [s EXCEPT !.sem = [value |-> MAX_BACKGROUND_TASKS, waiters |-> <<>>],
            !.log.semaphores = @ + 1]

\* get_tasks_semaphore: create the singleton on first use
get_tasks_semaphore(s) ==
  IF s.sem = None
    THEN [s EXCEPT !.sem = [value |-> MAX_BACKGROUND_TASKS, waiters |-> <<>>],
                   !.log.semaphores = @ + 1]
    ELSE s

\* (Locked with a fault: the permit test is off by one)
Locked_offbyone(sem) ==
  \/ sem.value < 0
  \/ \E i \in 1..Len(sem.waiters) : sem.waiters[i].state # "cancelled"

\* Semaphore.locked(): no permit left, or some waiter is still queued
Locked(sem) ==
  \/ sem.value = 0
  \/ \E i \in 1..Len(sem.waiters) : sem.waiters[i].state # "cancelled"

\* (PendingWaiters with a fault: a cancelled future counts as waiting)
PendingWaiters_cancelled(sem) ==
  {i \in 1..Len(sem.waiters) : sem.waiters[i].state # "result"}

\* the waiters whose future is not done
PendingWaiters(sem) ==
  {i \in 1..Len(sem.waiters) : sem.waiters[i].state = "pending"}

\* (NextWaiter with a fault: the last queued waiter is woken)
NextWaiter_last(sem) ==
  IF PendingWaiters(sem) = {} THEN 0
  ELSE CHOOSE i \in PendingWaiters(sem) : \A j \in PendingWaiters(sem) : j <= i

\* Semaphore._wake_up_next's choice: the first waiter whose future is not done
NextWaiter(sem) ==
  IF PendingWaiters(sem) = {} THEN 0
  ELSE CHOOSE i \in PendingWaiters(sem) : \A j \in PendingWaiters(sem) : i <= j

\* Semaphore._wake_up_next: hand a permit to that waiter, whose task is then
\* scheduled to resume
WakeUpNext(s) ==
  LET i == NextWaiter(s.sem) IN
  IF i = 0 THEN s
  ELSE [s EXCEPT !.sem.value = @ - 1,
                 !.sem.waiters[i].state = "result",
                 !.ready = Append(@, StepCb(s.sem.waiters[i].task))]

\* 'while self._value > 0: if not self._wake_up_next(): break'
RECURSIVE WakeWhilePermits(_)
WakeWhilePermits(s) ==
  IF s.sem.value > 0 /\ NextWaiter(s.sem) # 0
    THEN WakeWhilePermits(WakeUpNext(s))
    ELSE s

\* (Release with a fault: the permit is returned and nobody is woken)
Release_nowake(s) ==
  [s EXCEPT !.sem.value = @ + 1]

\* Semaphore.release()
Release(s) ==
  WakeUpNext([s EXCEPT !.sem.value = @ + 1])

WaiterIndex(sem, t) ==
  CHOOSE i \in 1..Len(sem.waiters) : sem.waiters[i].task = t

RemoveAt(seq, i) ==
  SubSeq(seq, 1, i - 1) \o SubSeq(seq, i + 1, Len(seq))

\* ---- asyncio.Task ---------------------------------------------------------

\* (Finish with a fault: the done callbacks are scheduled last registered first)
Finish_lifo(s, t, outcome) ==
  LET cbs == s.task[t].callbacks IN
  [s EXCEPT !.task[t].pc = "done",
            !.task[t].outcome = outcome,
            !.task[t].must_cancel = FALSE,
            !.task[t].callbacks = <<>>,
            !.ready = @ \o [i \in 1..Len(cbs) |-> cbs[Len(cbs) + 1 - i]]]

\* The task reaches a terminal state: its done callbacks are scheduled in the
\* order they were registered.
Finish(s, t, outcome) ==
  [s EXCEPT !.task[t].pc = "done",
            !.task[t].outcome = outcome,
            !.task[t].must_cancel = FALSE,
            !.task[t].callbacks = <<>>,
            !.ready = @ \o s.task[t].callbacks]

\* Task.cancel() on a task that is not done: cancel the future the task is
\* suspended on, or, when there is none to cancel, ask the next step to throw.
TaskCancel(s, t) ==
  LET tk == s.task[t] IN
  IF tk.pc = "acquiring" /\ s.sem.waiters[WaiterIndex(s.sem, t)].state = "pending"
    THEN [s EXCEPT !.sem.waiters[WaiterIndex(s.sem, t)].state = "cancelled",
                   !.ready = Append(@, StepCb(t)),
                   !.log.cancelled_queued = @ \cup {t}]
  ELSE IF tk.pc = "working" /\ tk.io = "pending"
    THEN [s EXCEPT !.task[t].io = "cancelled",
                   !.ready = Append(@, StepCb(t))]
  ELSE [s EXCEPT !.task[t].must_cancel = TRUE]

\* ---- _run_behind_semaphore -----------------------------------------------

\* Past the gate: "Running task" is logged and the work coroutine is awaited;
\* the work suspends on its own I/O.
Enter(s, t) ==
  [s EXCEPT !.task[t].pc = "working",
            !.task[t].io = "pending",
            !.log.started = Append(@, t)]

\* (ExitGuarded with a fault: the permit is kept when the work raises)
ExitGuarded_leak(s, t, outcome) ==
  IF outcome = "error" THEN Finish(s, t, outcome)
                       ELSE Finish(Release(s), t, outcome)

\* (ExitGuarded with a fault: the permit is kept when the work is cancelled)
ExitGuarded_keeponcancel(s, t, outcome) ==
  IF outcome = "cancelled" THEN Finish(s, t, outcome)
                           ELSE Finish(Release(s), t, outcome)

\* Leaving 'async with': __aexit__ releases the permit whatever the outcome,
\* then the coroutine ends and the task is done.
ExitGuarded(s, t, outcome) ==
  Finish(Release(s), t, outcome)

\* First step of the task: a cancel requested before the first step is thrown
\* into the unstarted coroutine; otherwise 'async with get_tasks_semaphore()'
\* calls acquire().
FirstStep(s, t) ==
  IF s.task[t].must_cancel THEN Finish(s, t, "cancelled")
  ELSE LET s1 == get_tasks_semaphore(s) IN
       IF ~Locked(s1.sem)
         THEN Enter([s1 EXCEPT !.sem.value = @ - 1], t)
         ELSE [s1 EXCEPT !.sem.waiters = Append(@, [task |-> t, state |-> "pending"]),
                         !.task[t].pc = "acquiring"]

\* The task resumes inside acquire(), at 'await fut': its future was given a
\* permit or was cancelled, or a cancel was requested after the permit was
\* given.  The future leaves the queue first; on CancelledError a permit that
\* the future had been given is put back; in every case the waiters that
\* free permits allow are woken; then acquire() returns or raises.
ResumeAcquire(s, t) ==
  LET i == WaiterIndex(s.sem, t)
      st == s.sem.waiters[i].state
      thrown == s.task[t].must_cancel \/ st = "cancelled"
      s1 == [s EXCEPT !.sem.waiters = RemoveAt(@, i)]
      s2 == IF thrown /\ st = "result" THEN [s1 EXCEPT !.sem.value = @ + 1] ELSE s1
      s3 == WakeWhilePermits(s2)
  IN
  IF thrown THEN Finish(s3, t, "cancelled") ELSE Enter(s3, t)

\* The task resumes at 'await coroutine': the work returned, raised, or was
\* cancelled.
ResumeWork(s, t) ==
  IF s.task[t].must_cancel \/ s.task[t].io = "cancelled"
    THEN ExitGuarded(s, t, "cancelled")
    ELSE ExitGuarded(s, t, s.task[t].io)

TaskStep(s, t) ==
  CASE s.task[t].pc = "created" -> FirstStep(s, t)
    [] s.task[t].pc = "acquiring" -> ResumeAcquire(s, t)
    [] s.task[t].pc = "working" -> ResumeWork(s, t)

\* ---- done callbacks -------------------------------------------------------

\* (Discard with a fault: every task of that name is removed)
Discard_byname(s, t) ==
  [s EXCEPT !.active = {u \in @ : s.task[u].name # s.task[t].name},
            !.log.discards[t] = @ + 1]

\* _ACTIVE_TASKS.discard
Discard(s, t) ==
  [s EXCEPT !.active = @ \ {t}, !.log.discards[t] = @ + 1]

\* (Caught with a fault: 'except Exception', which CancelledError is not)
Caught_exception(outcome) ==
  outcome = "error"

\* 'except BaseException' catches errors and CancelledError alike
Caught(outcome) ==
  outcome \in {"error", "cancelled"}

\* _raise_aware_task_callback: task.result() raises for a failed or cancelled
\* task; what is caught is logged as a warning, anything else would reach the
\* event loop.
_raise_aware_task_callback(s, t) ==
  LET s1 == [s EXCEPT !.log.reports[t] = @ + 1] IN
  IF s.task[t].outcome = "ok" THEN s1
  ELSE IF Caught(s.task[t].outcome)
    THEN [s1 EXCEPT !.log.warnings[t] = @ + 1]
    ELSE [s1 EXCEPT !.log.unhandled = @ \cup {t}]

\* ---- run_background_task --------------------------------------------------

\* tasks are numbered in the order run_background_task is called
NextTask ==
  CHOOSE t \in Tasks : task[t].pc = "none" /\ \A u \in Tasks : u < t => task[u].pc # "none"

\* (Register with a fault: the task is not added)
Register_skip(active, t) ==
  active

\* _ACTIVE_TASKS.add
Register(active, t) ==
  active \cup {t}

\* (DoneCallbacks with a fault: the reporter is registered twice)
DoneCallbacks_twice(t) ==
  <<DiscardCb(t), ReportCb(t), ReportCb(t)>>

\* (DoneCallbacks with a fault: the discard callback is not registered)
DoneCallbacks_nodiscard(t) ==
  <<ReportCb(t)>>

\* the two add_done_callback calls, in order
DoneCallbacks(t) ==
  <<DiscardCb(t), ReportCb(t)>>

run_background_task(n) ==
  /\ BetweenCallbacks
  /\ \E t \in Tasks : task[t].pc = "none"
  /\ LET t == NextTask IN
     Commit(State, [State EXCEPT
       !.task[t] = [NoTask EXCEPT !.name = n, !.pc = "created",
                                  !.callbacks = DoneCallbacks(t)],
       !.active = Register(@, t),
       !.ready = Append(@, StepCb(t))])

\* ---- wait_for_task --------------------------------------------------------

\* (NameMatches with a fault: every task matches)
NameMatches_any(tn, n) ==
  TRUE

\* task.get_name() == task_name
NameMatches(tn, n) ==
  tn = n

\* (Deadline with a fault: one deadline for the whole call)
Deadline_shared(called, began, seconds) ==
  called + seconds

\* asyncio.timeout(seconds) entered for one wait: the timer is set from the
\* time that wait begins
Deadline(called, began, seconds) ==
  began + seconds

Raise(s, w, err) ==
  [s EXCEPT !.waiter[w].pc = "raised", !.waiter[w].error = err]

\* (Iterate with a fault: the loop runs over the live set, so tasks submitted
\* during the wait join the iteration)
RECURSIVE Iterate_live(_, _, _)
Iterate_live(s, w, i) ==
  LET old == s.waiter[w].snapshot
      new == s.active \ {old[k] : k \in 1..Len(old)}
      more == CHOOSE f \in [1..Cardinality(new) -> new] :
                \A j, k \in 1..Cardinality(new) : j < k => f[j] < f[k]
      s0 == [s EXCEPT !.waiter[w].snapshot = old \o more]
      wr == s0.waiter[w]
  IN
  IF i > Len(wr.snapshot)
    THEN [s0 EXCEPT !.waiter[w].pc = "returned", !.waiter[w].idx = i]
  ELSE LET t == wr.snapshot[i] IN
    IF ~NameMatches(s0.task[t].name, wr.name) THEN Iterate_live(s0, w, i + 1)
    ELSE IF s0.task[t].pc = "done"
      THEN IF s0.task[t].outcome = "ok" THEN Iterate_live(s0, w, i + 1)
           ELSE Raise([s0 EXCEPT !.waiter[w].idx = i], w,
                      IF s0.task[t].outcome = "error" THEN "WorkError"
                                                      ELSE "CancelledError")
    ELSE [s0 EXCEPT !.waiter[w].pc = "suspended",
                    !.waiter[w].idx = i,
                    !.waiter[w].began = s0.now,
                    !.waiter[w].deadline = Deadline(wr.called, s0.now, wr.seconds),
                    !.waiter[w].expiring = FALSE,
                    !.task[t].callbacks = Append(@, WakeupCb(w))]

\* The for loop over the copy, from position i up to the first suspension.
\* Awaiting a task that is already done does not suspend: wait_for returns its
\* result or raises what it raised.
RECURSIVE Iterate(_, _, _)
Iterate(s, w, i) ==
  LET wr == s.waiter[w] IN
  IF i > Len(wr.snapshot)
    THEN [s EXCEPT !.waiter[w].pc = "returned", !.waiter[w].idx = i]
  ELSE LET t == wr.snapshot[i] IN
    IF ~NameMatches(s.task[t].name, wr.name) THEN Iterate(s, w, i + 1)
    ELSE IF s.task[t].pc = "done"
      THEN IF s.task[t].outcome = "ok" THEN Iterate(s, w, i + 1)
           ELSE Raise([s EXCEPT !.waiter[w].idx = i], w,
                      IF s.task[t].outcome = "error" THEN "WorkError"
                                                     ELSE "CancelledError")
    ELSE [s EXCEPT !.waiter[w].pc = "suspended",
                   !.waiter[w].idx = i,
                   !.waiter[w].began = s.now,
                   !.waiter[w].deadline = Deadline(wr.called, s.now, wr.seconds),
                   !.waiter[w].expiring = FALSE,
                   !.task[t].callbacks = Append(@, WakeupCb(w))]

\* the iteration orders a copy of the set can have
Orders(S) ==
  {f \in [1..Cardinality(S) -> S] : \A i, j \in 1..Cardinality(S) : f[i] = f[j] => i = j}

wait_for_task(w, n, seconds) ==
  /\ BetweenCallbacks
  /\ waiter[w].pc = "idle"
  /\ \E snap \in Orders(_ACTIVE_TASKS) :
       Commit(State, Iterate([State EXCEPT !.waiter[w].name = n,
                                    !.waiter[w].seconds = seconds,
                                    !.waiter[w].snapshot = snap,
                                    !.waiter[w].called = now],
                      w, 1))

Current(wr) ==
  wr.snapshot[wr.idx]

\* The awaited task is done and wakes the waiter.  A CancelledError that
\* arrives after the timer expired leaves wait_for as TimeoutError; any other
\* outcome of the task is passed on as it is.
WaiterWakeup(s, w) ==
  LET wr == s.waiter[w]
      out == s.task[Current(wr)].outcome
  IN
  IF wr.must_cancel THEN Raise(s, w, "TimeoutError")
  ELSE IF out = "ok" THEN Iterate(s, w, wr.idx + 1)
  ELSE IF out = "error" THEN Raise(s, w, "WorkError")
  ELSE IF wr.expiring THEN Raise(s, w, "TimeoutError")
  ELSE Raise(s, w, "CancelledError")

\* The timer of wait_for expires: the waiting coroutine is cancelled, and the
\* cancellation goes to the task it awaits.
OnTimeout(s, w) ==
  LET t == Current(s.waiter[w])
      s1 == [s EXCEPT !.waiter[w].expiring = TRUE]
  IN
  IF s.task[t].pc = "done"
    THEN [s1 EXCEPT !.waiter[w].must_cancel = TRUE]
    ELSE TaskCancel(s1, t)

\* ---- the event loop runs the callback at the head of the ready queue ------

Popped ==
  [State EXCEPT !.ready = Tail(@)]

RunStep ==
  /\ ready # <<>> /\ Head(ready).kind = "step"
  /\ Commit(Popped, TaskStep(Popped, Head(ready).id))

RunDiscard ==
  /\ ready # <<>> /\ Head(ready).kind = "discard"
  /\ Commit(Popped, Discard(Popped, Head(ready).id))

RunReport ==
  /\ ready # <<>> /\ Head(ready).kind = "report"
  /\ Commit(Popped, _raise_aware_task_callback(Popped, Head(ready).id))

RunWakeup ==
  /\ ready # <<>> /\ Head(ready).kind = "wakeup"
  /\ Commit(Popped, WaiterWakeup(Popped, Head(ready).id))

\* ---- environment ----------------------------------------------------------

\* the I/O the work is suspended on completes: the work will return or raise
WorkFinish(t, r) ==
  /\ BetweenCallbacks
  /\ task[t].pc = "working" /\ task[t].io = "pending"
  /\ Commit(State, [State EXCEPT !.task[t].io = r, !.ready = Append(@, StepCb(t))])

\* time passes; it is read only by the timer of a suspended wait_for
Tick ==
  /\ now < MaxTime
  /\ \E w \in Waiters : waiter[w].pc = "suspended" /\ ~waiter[w].expiring
  /\ Commit(State, [State EXCEPT !.now = @ + 1])

TimerFire(w) ==
  /\ BetweenCallbacks
  /\ waiter[w].pc = "suspended" /\ ~waiter[w].expiring
  /\ now >= waiter[w].deadline
  /\ Commit(State, OnTimeout(State, w))

Next ==
  \/ \E n \in Names : run_background_task(n)
  \/ \E w \in Waiters, n \in WaitNames, sec \in Timeouts : wait_for_task(w, n, sec)
  \/ RunStep
  \/ RunDiscard
  \/ RunReport
  \/ RunWakeup
  \/ \E t \in Tasks, r \in {"ok", "error"} : WorkFinish(t, r)
  \/ Tick
  \/ \E w \in Waiters : TimerFire(w)

Spec == Init /\ [][Next]_vars

\* The event loop runs every ready callback, and every work body that is
\* running finishes at some time.
FairSpec ==
  /\ Spec
  /\ WF_vars(RunStep)
  /\ WF_vars(RunDiscard)
  /\ WF_vars(RunReport)
  /\ WF_vars(RunWakeup)
  /\ \A t \in Tasks : WF_vars(\E r \in {"ok", "error"} : WorkFinish(t, r))

TypeOK ==
  /\ _ACTIVE_TASKS \subseteq Tasks
  /\ \A t \in Tasks : task[t].pc \in {"none", "created", "acquiring", "working", "done"}
  /\ \A w \in Waiters : waiter[w].pc \in {"idle", "suspended", "returned", "raised"}

\* ---- helpers of the properties ---------------------------------------------

Inside ==
  {t \in Tasks : task[t].pc = "working"}

Queued ==
  {t \in Tasks : task[t].pc = "acquiring"}

Started ==
  {log.started[i] : i \in 1..Len(log.started)}

Pending(cb) ==
  \E i \in 1..Len(ready) : ready[i].kind = cb.kind /\ ready[i].id = cb.id

Matched(w) ==
  {t \in Tasks : \E i \in 1..Len(waiter[w].snapshot) :
     waiter[w].snapshot[i] = t /\ task[t].name = waiter[w].name}

\* ---- C1 -------------------------------------------------------------------
\* C1: at no time are more than MAX_BACKGROUND_TASKS work bodies inside the
\* 'async with' of _run_behind_semaphore.
C1_ConcurrencyBound ==
  Cardinality(Inside) <= MAX_BACKGROUND_TASKS

\* the gate is full while two more tasks are queued behind it
C1_Witness ==
  Cardinality(Inside) = MAX_BACKGROUND_TASKS /\ Cardinality(Queued) >= 2

\* ---- C2 -------------------------------------------------------------------
\* C2: a wait_for_task that ended in TimeoutError on a task whose work was
\* running has left that task uncancelled.
C2_TimeoutLeavesTask ==
  \A w \in Waiters :
    (waiter[w].error = "TimeoutError" /\ Current(waiter[w]) \in Started) =>
      task[Current(waiter[w])].outcome # "cancelled"

\* ---- C3 -------------------------------------------------------------------
\* C3: the only error wait_for_task raises to its caller is TimeoutError: never
\* the error of a work body, never the cancellation of a task.
C3_OnlyTimeoutSurfaces ==
  \A w \in Waiters : waiter[w].error \in {"none", "TimeoutError"}

\* ---- C4 -------------------------------------------------------------------
\* C4: with capacity 1 the work bodies pass the gate in the order in which
\* run_background_task was called (tasks are numbered in that order).
C4_StartInSubmissionOrder ==
  \A i, j \in 1..Len(log.started) :
    i < j => log.started[i] < log.started[j]

\* three tasks have passed the gate, the last two both queued behind the first
C4_Witness ==
  log.started = <<1, 2, 3>>

\* ---- C5 -------------------------------------------------------------------
\* C5 (as claimed): the Task Set never holds a task that is terminal.
C5_NoTerminalInTaskSet ==
  \A t \in _ACTIVE_TASKS : task[t].pc # "done"

\* C5 (amended): the Task Set holds every task that is queued or running; a
\* terminal task is in it only while its discard callback is still in the
\* ready queue, and never after that callback ran.
C5_TerminalUntilDiscard ==
  \A t \in Tasks :
    /\ task[t].pc \in {"created", "acquiring", "working"} => t \in _ACTIVE_TASKS
    /\ task[t].pc = "done" => (t \in _ACTIVE_TASKS <=> Pending(DiscardCb(t)))
    /\ task[t].pc = "none" => t \notin _ACTIVE_TASKS

\* one terminal task is already out of the Task Set, another still in it
C5_Witness ==
  \E t, u \in Tasks :
    /\ task[t].pc = "done" /\ t \notin _ACTIVE_TASKS
    /\ task[u].pc = "done" /\ u \in _ACTIVE_TASKS

\* ---- C6 -------------------------------------------------------------------
Failed ==
  \E t \in Tasks : task[t].outcome = "error"

\* C6: the error of a work body reaches neither the event loop nor a caller
\* of run_background_task, and it does not stop the scheduler: once a work
\* body has failed, every task that is queued or newly submitted still passes
\* the gate (unless a wait_for cancels it first).
C6_FailureContained ==
  /\ [](log.unhandled = {})
  /\ \A t \in Tasks :
       (Failed /\ task[t].pc \in {"created", "acquiring"})
         ~> (t \in Started \/ task[t].outcome = "cancelled")

\* the first work body failed; the two tasks behind it passed the gate
C6_Witness ==
  /\ task[1].outcome = "error"
  /\ log.started = <<1, 2, 3>>
  /\ log.warnings[1] = 1

\* ---- C7 -------------------------------------------------------------------
\* C7: a wait_for_task call whose name matches no task of _ACTIVE_TASKS returns
\* in the same step, without error, and changes neither the Task Set, nor the
\* semaphore, nor any task, nor the ready queue.
C7_NoMatchReturnsAtOnce ==
  [][\A w \in Waiters :
       ( /\ waiter[w].pc = "idle"
         /\ waiter'[w].pc # "idle"
         /\ \A t \in _ACTIVE_TASKS : task[t].name # waiter'[w].name )
       => ( /\ waiter'[w].pc = "returned"
            /\ waiter'[w].error = "none"
            /\ _ACTIVE_TASKS' = _ACTIVE_TASKS
            /\ _TASKS_SEMAPHORE' = _TASKS_SEMAPHORE
            /\ task' = task
            /\ ready' = ready )]_vars

\* the call has returned over a snapshot that held tasks, none of that name
C7_Witness ==
  \E w \in Waiters :
    /\ waiter[w].pc = "returned"
    /\ Len(waiter[w].snapshot) >= 2
    /\ Matched(w) = {}

\* ---- C8 -------------------------------------------------------------------
\* C8: the step in which run_background_task creates a task leaves the task
\* in _ACTIVE_TASKS, created but not started: its first step is only queued
\* on the event loop, it has not reached the semaphore, and the semaphore is
\* untouched.
C8_SubmitDoesNotWait ==
  [][\A t \in Tasks :
       (task[t].pc = "none" /\ task'[t].pc # "none")
       => ( /\ t \in _ACTIVE_TASKS'
            /\ task'[t].pc = "created"
            /\ task'[t].io = "idle"
            /\ log'.started = log.started
            /\ ready' = Append(ready, [StepCb(t) EXCEPT !.first = TRUE])
            /\ _TASKS_SEMAPHORE' = _TASKS_SEMAPHORE
            /\ waiter' = waiter )]_vars

\* a task was just submitted while another one is running its work
C8_Witness ==
  \E t, u \in Tasks :
    /\ task[t].pc = "created" /\ t \in _ACTIVE_TASKS /\ Pending(StepCb(t))
    /\ task[u].pc = "working"

\* ---- C9 -------------------------------------------------------------------
HasWakeup(t, w) ==
  \E i \in 1..Len(task[t].callbacks) :
    task[t].callbacks[i].kind = "wakeup" /\ task[t].callbacks[i].id = w

\* C9: wait_for_task waits for one matched task at a time; the timer of each
\* wait is set to the time that wait began plus the timeout; a TimeoutError
\* comes no earlier than that, and it ends the call: no later matched task is
\* waited for.
C9_OwnWindowPerTask ==
  \A w \in Waiters :
    /\ waiter[w].pc = "suspended" =>
         /\ waiter[w].deadline = waiter[w].began + waiter[w].seconds
         /\ waiter[w].began >= waiter[w].called
         /\ \A t \in Tasks : HasWakeup(t, w) => t = Current(waiter[w])
    /\ waiter[w].expiring => now >= waiter[w].began + waiter[w].seconds
    /\ waiter[w].error = "TimeoutError" =>
         /\ waiter[w].pc = "raised"
         /\ now >= waiter[w].began + waiter[w].seconds
         /\ \A t \in Tasks : ~HasWakeup(t, w)

\* the call timed out on its second matched task, in a window that began
\* after the call, and left a third matched task unawaited
C9_Witness ==
  \E w \in Waiters :
    /\ waiter[w].error = "TimeoutError"
    /\ waiter[w].began > waiter[w].called
    /\ \E i \in 1..Len(waiter[w].snapshot) :
         /\ i > waiter[w].idx
         /\ task[waiter[w].snapshot[i]].name = waiter[w].name
         /\ task[waiter[w].snapshot[i]].pc # "done"

\* ---- C10 ------------------------------------------------------------------
\* C10: with capacity 1, when the work body of a task has started, every task
\* submitted before it is terminal; and a wait_for_task that returned without
\* error did so after every task it matched, and every task submitted before
\* one of those, was terminal.
C10_SerialisedByGate ==
  /\ \A t, u \in Tasks : (t < u /\ u \in Started) => task[t].pc = "done"
  /\ \A w \in Waiters :
       waiter[w].pc = "returned" =>
         \A u \in Matched(w) : \A t \in Tasks : t <= u => task[t].pc = "done"

\* ---- C11 ------------------------------------------------------------------
InFlight ==
  {t \in Tasks : task[t].pc \in {"created", "acquiring", "working"}}

\* queued tasks whose acquire() future was given a permit by a release and
\* that have not resumed yet
Handed ==
  {t \in Queued : _TASKS_SEMAPHORE.waiters[WaiterIndex(_TASKS_SEMAPHORE, t)].state = "result"}

PermitsHeld ==
  IF _TASKS_SEMAPHORE = None THEN 0
  ELSE MAX_BACKGROUND_TASKS - _TASKS_SEMAPHORE.value

\* C11 (as claimed): the number of permits held equals the number of tasks
\* inside the guarded section.
C11_PermitsEqualInside ==
  PermitsHeld = Cardinality(Inside)

\* C11 (amended): the permits held are those of the tasks inside the guarded
\* section and those already handed by a release to a queued task that has
\* not resumed yet; a terminal task holds none; with no task in flight every
\* permit is available.
C11_PermitsAccounted ==
  /\ PermitsHeld = Cardinality(Inside) + Cardinality(Handed)
  /\ PermitsHeld \in 0..MAX_BACKGROUND_TASKS
  /\ InFlight = {} => PermitsHeld = 0

\* the three exit paths were taken (return, raise, cancelled while working)
\* and every permit is back
C11_Witness ==
  /\ \A t \in Tasks : task[t].pc = "done" /\ t \in Started
  /\ {task[t].outcome : t \in Tasks} = {"ok", "error", "cancelled"}
  /\ PermitsHeld = 0

\* ---- C12 ------------------------------------------------------------------
HandlersDone(t) ==
  task[t].pc = "done" /\ ~Pending(DiscardCb(t)) /\ ~Pending(ReportCb(t))

\* C12: the discard callback and the reporter each run exactly once for a
\* task, after it became terminal and on whatever path it did; the task is in
\* the Task Set from its submission until that one discard, and never again.
C12_RemovedOnceReportedOnce ==
  \A t \in Tasks :
    /\ log.discards[t] = (IF task[t].pc = "done" /\ ~Pending(DiscardCb(t)) THEN 1 ELSE 0)
    /\ log.reports[t] = (IF task[t].pc = "done" /\ ~Pending(ReportCb(t)) THEN 1 ELSE 0)
    /\ t \in _ACTIVE_TASKS <=> (task[t].pc # "none" /\ log.discards[t] = 0)
    /\ task[t].pc = "done" =>
         (Pending(DiscardCb(t)) \/ log.discards[t] = 1) /\ (Pending(ReportCb(t)) \/ log.reports[t] = 1)

\* three tasks ended by return, by error and by cancellation while still
\* queued behind the gate; the handlers of each have run
C12_Witness ==
  /\ \A t \in Tasks : HandlersDone(t) /\ log.discards[t] = 1 /\ log.reports[t] = 1
  /\ {task[t].outcome : t \in Tasks} = {"ok", "error", "cancelled"}
  /\ \E t \in log.cancelled_queued : task[t].outcome = "cancelled"

\* ---- C13 ------------------------------------------------------------------
\* C13: once the reporter has run for a task it has logged exactly one warning
\* if the task ended in an error or in cancellation and none if it returned;
\* before, it has logged none; and it never raises into the event loop.
C13_ReporterClassifies ==
  /\ log.unhandled = {}
  /\ \A t \in Tasks :
       log.warnings[t] =
         (IF log.reports[t] = 1 /\ task[t].outcome \in {"error", "cancelled"} THEN 1 ELSE 0)

\* the reporter has run for a task that returned, one that raised and one
\* that was cancelled while running its work
C13_Witness ==
  /\ \A t \in Tasks : log.reports[t] = 1
  /\ \E t, u, v \in Tasks :
       /\ task[t].outcome = "ok" /\ log.warnings[t] = 0
       /\ task[u].outcome = "error" /\ log.warnings[u] = 1
       /\ task[v].outcome = "cancelled" /\ log.warnings[v] = 1 /\ v \in Started

\* ---- C14 ------------------------------------------------------------------
SnapshotSet(w) ==
  {waiter[w].snapshot[i] : i \in 1..Len(waiter[w].snapshot)}

Position(w, t) ==
  CHOOSE i \in 1..Len(waiter[w].snapshot) : waiter[w].snapshot[i] = t

\* a submit adds one new entry and touches no entry already in the set; an
\* entry leaves the set only in the discard callback of that very task
C14_Step ==
  \A t \in Tasks :
    /\ (t \notin _ACTIVE_TASKS /\ t \in _ACTIVE_TASKS') =>
         /\ task[t].pc = "none"
         /\ _ACTIVE_TASKS' = _ACTIVE_TASKS \cup {t}
         /\ \A u \in _ACTIVE_TASKS : task'[u] = task[u]
    /\ (t \in _ACTIVE_TASKS /\ t \notin _ACTIVE_TASKS') =>
         /\ _ACTIVE_TASKS' = _ACTIVE_TASKS \ {t}
         /\ IF ready = <<>> THEN FALSE
            ELSE Head(ready).kind = "discard" /\ Head(ready).id = t

\* the call passes no task of that name in its snapshot without the task
\* being done, and it returns only when all of them are done
C14_WaitsForEach ==
  \A w \in Waiters :
    /\ waiter[w].pc \in {"suspended", "raised"} =>
         \A t \in Matched(w) : Position(w, t) < waiter[w].idx => task[t].pc = "done"
    /\ waiter[w].pc = "suspended" => Current(waiter[w]) \in Matched(w)
    /\ waiter[w].pc = "returned" =>
         \A t \in Matched(w) : task[t].pc = "done" /\ task[t].outcome = "ok"

\* C14: task names need not be unique.  Submitting under a name already in
\* the Task Set adds a distinct entry and leaves the others as they are; the
\* discard of one task removes that task alone; wait_for_task waits for each
\* task of that name in its snapshot, one after the other.
C14_SameNameDistinct ==
  [](C14_WaitsForEach) /\ [][C14_Step]_vars

\* two tasks of one name were both in the snapshot; the first is done and
\* discarded while the second is still in the Task Set, and the call now
\* waits for the second
C14_Witness ==
  \E w \in Waiters : \E t, u \in Matched(w) :
    /\ t # u /\ task[t].name = task[u].name
    /\ log.discards[t] = 1 /\ u \in _ACTIVE_TASKS
    /\ waiter[w].pc = "suspended" /\ Current(waiter[w]) = u
    /\ Position(w, t) < Position(w, u)

\* ---- C15 ------------------------------------------------------------------
\* the semaphore exists from the first call of get_tasks_semaphore on, was
\* created once, and its permits add up to MAX_BACKGROUND_TASKS
C15_Singleton ==
  /\ (_TASKS_SEMAPHORE = None) <=> (log.semaphores = 0)
  /\ log.semaphores <= 1
  /\ _TASKS_SEMAPHORE = None => Queued = {} /\ Inside = {} /\ Started = {}
  /\ _TASKS_SEMAPHORE # None =>
       /\ _TASKS_SEMAPHORE.value + Cardinality(Inside) + Cardinality(Handed) = MAX_BACKGROUND_TASKS
       /\ \A t \in Queued : \E i \in 1..Len(_TASKS_SEMAPHORE.waiters) :
            _TASKS_SEMAPHORE.waiters[i].task = t

\* once created the semaphore is never dropped nor created again
C15_Step ==
  _TASKS_SEMAPHORE # None =>
    _TASKS_SEMAPHORE' # None /\ log'.semaphores = log.semaphores

\* C15: the gate is created lazily, at the first call of get_tasks_semaphore,
\* and once only; every task queues on and enters through that one semaphore,
\* whose capacity stays MAX_BACKGROUND_TASKS.
C15_LazySingleton ==
  [](C15_Singleton) /\ [][C15_Step]_vars

\* one semaphore was created; two tasks went through it and a third queues
\* on it
C15_Witness ==
  /\ log.semaphores = 1
  /\ Len(log.started) = 2
  /\ Cardinality(Queued) = 1
  /\ Len(_TASKS_SEMAPHORE.waiters) = 1

\* ---- C16 ------------------------------------------------------------------
Submitted ==
  {t \in Tasks : task[t].pc # "none"}

\* C16: with a fair event loop and work that finishes, every submitted task
\* is admitted or cancelled and becomes terminal and leaves the Task Set; the
\* Task Set becomes empty with all permits free; a queued task does not stay
\* queued.
C16_EventuallyDrained ==
  (_ACTIVE_TASKS # {}) ~>
    /\ _ACTIVE_TASKS = {} /\ InFlight = {} /\ PermitsHeld = 0
    /\ \A t \in Submitted :
         task[t].pc = "done" /\ (t \in Started \/ task[t].outcome = "cancelled")

\* all tasks were submitted, two of them queued behind the first, and all is
\* drained
C16_Witness ==
  /\ Submitted = Tasks /\ _ACTIVE_TASKS = {} /\ InFlight = {}
  /\ PermitsHeld = 0 /\ ready = <<>>
  /\ log.started = <<1, 2, 3>>
  /\ \A t \in Tasks : task[t].outcome \in {"ok", "error"}

\* ---- C17 ------------------------------------------------------------------
\* a task cancelled while it queued is never admitted; a free permit never
\* coexists with a live queued waiter; admission follows submission order
C17_Inv ==
  /\ \A t \in log.cancelled_queued :
       /\ t \notin Started /\ t \notin Inside /\ t \notin Handed
       /\ task[t].pc = "done" => task[t].outcome = "cancelled"
  /\ _TASKS_SEMAPHORE # None =>
       (PendingWaiters(_TASKS_SEMAPHORE) # {} => _TASKS_SEMAPHORE.value = 0)
  /\ \A i, j \in 1..Len(log.started) : i < j => log.started[i] < log.started[j]

\* neither the cancellation of a queued task nor the step in which that task
\* ends changes the number of permits
C17_Step ==
  \A t \in Tasks :
    /\ (t \notin log.cancelled_queued /\ t \in log'.cancelled_queued) =>
         _TASKS_SEMAPHORE'.value = _TASKS_SEMAPHORE.value
    /\ (t \in log.cancelled_queued /\ task[t].pc = "acquiring" /\ task'[t].pc # "acquiring") =>
         /\ task'[t].pc = "done"
         /\ _TASKS_SEMAPHORE'.value = _TASKS_SEMAPHORE.value

\* C17: a task cancelled while queued behind the gate takes no permit, gives
\* none back and never starts its work; the permit count is the same before
\* and after; the tasks queued behind it are admitted in submission order.
C17_CancelWhileQueued ==
  [](C17_Inv) /\ [][C17_Step]_vars

\* the second task was cancelled in the queue and has ended; the third, queued
\* behind it, was admitted after the first
C17_Witness ==
  /\ log.cancelled_queued = {2}
  /\ task[2].pc = "done"
  /\ log.started = <<1, 3>>

\* ---- C18 ------------------------------------------------------------------
\* C18: when wait_for_task is about to resume because the task it awaits is
\* done, the discard callback of that task has run: the task is no longer in
\* the Task Set.
C18_DiscardBeforeResume ==
  \A w \in Waiters :
    (IF ready = <<>> THEN FALSE
     ELSE Head(ready).kind = "wakeup" /\ Head(ready).id = w) =>
      /\ task[Current(waiter[w])].pc = "done"
      /\ Current(waiter[w]) \notin _ACTIVE_TASKS
      /\ log.discards[Current(waiter[w])] = 1

\* the waiter is next to resume after a task that returned
C18_Witness ==
  \E w \in Waiters :
    /\ ready # <<>> /\ Head(ready).kind = "wakeup" /\ Head(ready).id = w
    /\ task[Current(waiter[w])].outcome = "ok"
    /\ ~waiter[w].expiring

\* ---- C19 ------------------------------------------------------------------
\* the call waits only for tasks of its snapshot, at its current position
C19_Inv ==
  \A w \in Waiters :
    /\ \A t \in Tasks : HasWakeup(t, w) =>
         t \in SnapshotSet(w) /\ waiter[w].pc = "suspended" /\ t = Current(waiter[w])
    /\ waiter[w].pc = "suspended" => waiter[w].idx \in 1..Len(waiter[w].snapshot)
    /\ waiter[w].pc = "returned" => waiter[w].idx = Len(waiter[w].snapshot) + 1

\* the snapshot is taken once, at the call
C19_Step ==
  \A w \in Waiters :
    waiter[w].pc # "idle" =>
      waiter'[w].snapshot = waiter[w].snapshot /\ waiter'[w].name = waiter[w].name

\* C19: wait_for_task waits only for tasks that were in the Task Set when it
\* copied it; a task of the same name submitted later is never awaited by
\* that call; the removal of tasks from the Task Set during the wait leaves
\* the iteration over the copy as it was.
C19_SnapshotOnly ==
  [](C19_Inv) /\ [][C19_Step]_vars

\* the call went through its two matching tasks, both discarded meanwhile, and
\* returned, while a task of the same name submitted during the wait is still
\* in flight
C19_Witness ==
  \E w \in Waiters :
    /\ waiter[w].pc = "returned"
    /\ Cardinality(Matched(w)) = 2
    /\ \A t \in Matched(w) : t \notin _ACTIVE_TASKS
    /\ \E u \in InFlight : u \notin SnapshotSet(w) /\ task[u].name = waiter[w].name

====
